---- MODULE Spec2Model ----
(***************************************************************************)
(* Model of src/parser.rs: the recursive-descent parser that turns a queue *)
(* of LexerTokens into a vector of ParserTokens.                           *)
(*                                                                         *)
(* The recursion of the Rust code is modelled with an explicit call stack: *)
(* every function of the parser has a frame, and every action is the code  *)
(* of one function between two of the calls it makes (or one iteration of  *)
(* one of its loops).  peek / eat / eat_expect do not call anything and    *)
(* are operators used inside the actions.                                  *)
(***************************************************************************)
EXTENDS Integers, Sequences, FiniteSets, TLC

(***************************************************************************)
(* Bounds of the explored inputs.                                          *)
(***************************************************************************)
\* statements in the top-level block of a generated program
MaxStmts == 2
\* length of the token streams given directly to eat_expr
MaxExprLen == 3

(***************************************************************************)
(* LexerToken (crate::lexer).  Equality is structural.                     *)
(***************************************************************************)
Tok(k, t) == [kind |-> k, text |-> t]
Keyword(t) == Tok("Keyword", t)
Identifier(t) == Tok("Identifier", t)
Operator(t) == Tok("Operator", t)
Symbol(c) == Tok("Symbol", c)
Value(v) == Tok("Value", v)
Eof == Tok("Eof", "")
\* Option::None of peek() and eat()
None == Tok("None", "")

(***************************************************************************)
(* ParserToken.  arg is the String / Value payload, n the u8 of Call and   *)
(* body the Vec<ParserToken> of DeclareFunction.                           *)
(***************************************************************************)
Instr(op, arg, n, body) == [op |-> op, arg |-> arg, n |-> n, body |-> body]
DeclareVariable(name) == Instr("DeclareVariable", name, 0, <<>>)
DeclareFunction(name, body) == Instr("DeclareFunction", name, 0, body)
GetVariable(name) == Instr("GetVariable", name, 0, <<>>)
Operation(op) == Instr("Operation", op, 0, <<>>)
Push(v) == Instr("Push", v, 0, <<>>)
Call(name, argc) == Instr("Call", name, argc, <<>>)

(***************************************************************************)
(* Token cursor: the VecDeque<LexerToken> `input`.                         *)
(***************************************************************************)
peek(q) == IF Len(q) = 0 THEN None ELSE Head(q)

\* Fault: the front token is read but not removed.
eat_front(q) == [tok |-> IF Len(q) = 0 THEN None ELSE Head(q),
                 rest |-> q]

eat(q) == [tok |-> IF Len(q) = 0 THEN None ELSE Head(q),
           rest |-> IF Len(q) = 0 THEN q ELSE Tail(q)]

\* Fault: a token that is not the expected one is left in the queue.
eat_expect_keeps_mismatch(q, expect) ==
    LET popped == eat(q)
    IN  [tok |-> popped.tok,
         rest |-> IF popped.tok = expect THEN popped.rest ELSE q,
         err |-> IF popped.tok = None THEN "Expected got EOF instead"
                 ELSE IF popped.tok # expect THEN "Expected got instead"
                 ELSE "ok"]

eat_expect(q, expect) ==
    LET popped == eat(q)
    IN  [tok |-> popped.tok,
         rest |-> popped.rest,
         err |-> IF popped.tok = None THEN "Expected got EOF instead"
                 ELSE IF popped.tok # expect THEN "Expected got instead"
                 ELSE "ok"]

\* Vec::contains
contains(vec, t) == \E i \in DOMAIN vec : vec[i] = t

(***************************************************************************)
(* AstExpr::evaluate (crate::expr), the expression translator.  It turns   *)
(* an infix token run  operand (operator operand)*  into postfix           *)
(* instructions that leave one value, and fails on anything else.          *)
(***************************************************************************)
IsOperand(t) == t.kind \in {"Value", "Identifier"}
IsBinaryOperator(t) == t.kind = "Operator" /\ t.text \notin {"(", ")"}

WellFormedExpr(e) ==
    /\ Len(e) % 2 = 1
    /\ \A i \in DOMAIN e : IF i % 2 = 1 THEN IsOperand(e[i]) ELSE IsBinaryOperator(e[i])

OperandInstr(t) == IF t.kind = "Value" THEN Push(t.text) ELSE GetVariable(t.text)

RECURSIVE Postfix(_)
Postfix(e) ==
    IF Len(e) = 1 THEN <<OperandInstr(e[1])>>
    ELSE Postfix(SubSeq(e, 1, Len(e) - 2))
           \o <<OperandInstr(e[Len(e)]), Operation(e[Len(e) - 1].text)>>

evaluate(e) == [ok |-> WellFormedExpr(e),
                val |-> IF WellFormedExpr(e) THEN Postfix(e) ELSE <<>>]

(***************************************************************************)
(* Explored inputs: the programs of a small grammar, and one-token faults  *)
(* (substitution, deletion, truncation) of its one-statement programs.     *)
(***************************************************************************)
Alphabet == {Keyword("let"), Keyword("fn"), Keyword("if"),
             Identifier("a"), Identifier("b"),
             Operator("("), Operator(")"), Operator("+"),
             Symbol("="), Symbol(";"), Symbol(","), Symbol("{"), Symbol("}"),
             Value("1"), Eof}

LetStmt == <<Keyword("let"), Identifier("a"), Symbol("="), Value("1"), Symbol(";")>>
CallStmt == <<Identifier("b"), Operator("("), Operator(")"), Symbol(";")>>

SimpleStmts ==
    {LetStmt,
     <<Keyword("let"), Identifier("b"), Symbol("="),
       Identifier("a"), Operator("+"), Value("1"), Symbol(";")>>,
     CallStmt,
     <<Identifier("a"), Symbol(";")>>,
     <<Value("1"), Operator("+"), Identifier("a"), Symbol(";")>>}

ParamLists ==
    {<<>>,
     <<Identifier("a")>>,
     <<Identifier("a"), Symbol(","), Identifier("b")>>,
     <<Identifier("b"), Symbol(","), Identifier("a")>>}

FnStmt(name, params, body) ==
    <<Keyword("fn"), Identifier(name), Operator("(")>> \o params
        \o <<Operator(")"), Symbol("{")>> \o body \o <<Symbol("}")>>

FnBodies == {<<>>, LetStmt \o CallStmt} \cup SimpleStmts

FnStmts ==
    {FnStmt("b", p, LetStmt) : p \in ParamLists}
        \cup {FnStmt("b", <<>>, body) : body \in FnBodies}
        \cup {FnStmt("a", <<>>, FnStmt("b", <<Identifier("a")>>, CallStmt) \o LetStmt)}

Stmts == SimpleStmts \cup FnStmts

RECURSIVE Blocks(_)
Blocks(n) ==
    IF n = 0 THEN {<<>>}
    ELSE {<<>>} \cup {s \o b : s \in Stmts, b \in Blocks(n - 1)}

Programs == {blk \o <<Eof>> : blk \in Blocks(MaxStmts)}

Seeds == {s \o <<Eof>> : s \in Stmts}

Substituted(s) == {[s EXCEPT ![i] = t] : i \in DOMAIN s, t \in Alphabet}
Deleted(s) == {SubSeq(s, 1, i - 1) \o SubSeq(s, i + 1, Len(s)) : i \in DOMAIN s}
Truncated(s) == {SubSeq(s, 1, i) : i \in 0..Len(s)}

Faulty == UNION {Substituted(s) \cup Deleted(s) \cup Truncated(s) : s \in Seeds}

Inputs == Programs \cup Faulty

\* Token streams and terminator vectors given directly to eat_expr.
ExprAlphabet == {Value("1"), Symbol(";"), Symbol(","), Operator(")"), Eof}

RECURSIVE TokenRuns(_)
TokenRuns(n) ==
    IF n = 0 THEN {<<>>}
    ELSE {<<>>} \cup {<<t>> \o r : t \in ExprAlphabet, r \in TokenRuns(n - 1)}

Terminators ==
    {<<>>, <<Symbol(";")>>, <<Symbol(",")>>, <<Symbol(","), Operator(")")>>}

(***************************************************************************)
(* State.                                                                  *)
(*   input   Parser.input, the tokens not yet consumed                     *)
(*   stack   the call stack, innermost call last                           *)
(*   ret     the value the call that has just returned gave to its caller  *)
(*   status  "running", "returned" (parse returned) or "panicked"          *)
(*   err     the panic message                                             *)
(*   result  the value returned by the outermost call                      *)
(*   orig    the token queue given to Parser::new (never changes)          *)
(*   log     history: the calls that have returned, in order of return     *)
(***************************************************************************)
VARIABLES input, stack, ret, status, err, result, orig, log

vars == <<input, stack, ret, status, err, result, orig, log>>

\* number of tokens consumed so far
pos == Len(orig) - Len(input)

\* A call frame: the function, the place in it, its arguments and locals.
\* start is the number of tokens consumed when the call was made.
Frame(fn, pc) ==
    [fn |-> fn, pc |-> pc, tk |-> None, terminator |-> <<>>, tokens |-> <<>>,
     out_tks |-> <<>>, name |-> "", fn_args |-> <<>>, start |-> pos]

NoRet == [fn |-> "none", val |-> <<>>, start |-> 0, end |-> 0,
          tk |-> None, terminator |-> <<>>]

top == stack[Len(stack)]
callers == SubSeq(stack, 1, Len(stack) - 1)

Running(fn, pc) ==
    /\ status = "running"
    /\ Len(stack) > 0
    /\ top.fn = fn
    /\ top.pc = pc

\* The running function goes on: q is the queue it leaves, f its frame,
\* called the frames of the calls it makes (none or one).
Goto(q, f, called) ==
    /\ input' = q
    /\ stack' = callers \o <<f>> \o called
    /\ ret' = NoRet
    /\ UNCHANGED <<status, err, result, orig, log>>

\* panic!(msg) after the queue has become q
Panic(q, msg) ==
    /\ input' = q
    /\ status' = "panicked"
    /\ err' = msg
    /\ ret' = NoRet
    /\ UNCHANGED <<stack, result, orig, log>>

\* The running function returns val, the queue being q.
Return(q, val) ==
    LET r == [fn |-> top.fn, val |-> val, start |-> top.start,
              end |-> Len(orig) - Len(q), tk |-> top.tk,
              terminator |-> top.terminator]
    IN  /\ input' = q
        /\ stack' = callers
        /\ ret' = r
        /\ log' = Append(log, r)
        /\ status' = IF Len(stack) = 1 THEN "returned" ELSE status
        /\ result' = IF Len(stack) = 1 THEN val ELSE result
        /\ UNCHANGED <<err, orig>>

Init ==
    /\ orig \in Inputs
    /\ input = orig
    /\ stack = <<[fn |-> "parse", pc |-> "start", tk |-> None, terminator |-> <<>>,
                  tokens |-> <<>>, out_tks |-> <<>>, name |-> "", fn_args |-> <<>>,
                  start |-> 0]>>
    /\ ret = NoRet
    /\ status = "running"
    /\ err = ""
    /\ result = <<>>
    /\ log = <<>>

(***************************************************************************)
(* Parser::parse                                                           *)
(***************************************************************************)
\* Fault: the top-level block is parsed up to a '}' instead of the Eof marker.
parse_to_brace ==
    /\ Running("parse", "start")
    /\ Goto(input, [top EXCEPT !.pc = "ret"],
            <<[Frame("parse_until", "loop") EXCEPT !.tk = Symbol("}")]>>)

parse ==
    /\ Running("parse", "start")
    /\ Goto(input, [top EXCEPT !.pc = "ret"],
            <<[Frame("parse_until", "loop") EXCEPT !.tk = Eof]>>)

parse_ret ==
    /\ Running("parse", "ret")
    /\ Return(input, ret.val)

(***************************************************************************)
(* Parser::parse_until: one iteration of 'parse_loop up to the call it     *)
(* makes, then the code after that call.                                   *)
(***************************************************************************)
\* Fault: the token after an identifier is only consumed when it is "(".
parse_until_keeps_second ==
    /\ Running("parse_until", "loop")
    /\ LET token == peek(input)
           first == eat(input)
           next == eat(first.rest)
       IN  IF token = None THEN Panic(input, "Unexpted end of file")
           ELSE IF token = top.tk THEN Return(input, top.tokens)
           ELSE IF token.kind = "Keyword" THEN
               IF token.text = "let" THEN
                   Goto(input, [top EXCEPT !.pc = "append"],
                        <<Frame("variable_decleration", "start")>>)
               ELSE IF token.text = "fn" THEN
                   Goto(input, [top EXCEPT !.pc = "append"],
                        <<Frame("function_decleration", "start")>>)
               ELSE Panic(input, "Unimplumented keyword " \o token.text)
           ELSE IF token.kind = "Identifier" THEN
               IF next.tok = None THEN Panic(next.rest, "Syntax error")
               ELSE IF next.tok = Operator("(") THEN
                   Goto(next.rest, [top EXCEPT !.pc = "append"],
                        <<[Frame("function_call", "start")
                              EXCEPT !.name = token.text,
                                     !.start = Len(orig) - Len(next.rest)]>>)
               ELSE Goto(first.rest, top, <<>>)
           ELSE Goto(input, [top EXCEPT !.pc = "expr"],
                     <<[Frame("eat_expr", "loop")
                           EXCEPT !.terminator = <<Symbol(";")>>]>>)

\* Fault: a keyword without a handler is taken as the start of an expression.
parse_until_keyword_as_expr ==
    /\ Running("parse_until", "loop")
    /\ LET token == peek(input)
           first == eat(input)
           next == eat(first.rest)
       IN  IF token = None THEN Panic(input, "Unexpted end of file")
           ELSE IF token = top.tk THEN Return(input, top.tokens)
           ELSE IF token.kind = "Keyword" /\ token.text = "let" THEN
               Goto(input, [top EXCEPT !.pc = "append"],
                    <<Frame("variable_decleration", "start")>>)
           ELSE IF token.kind = "Keyword" /\ token.text = "fn" THEN
               Goto(input, [top EXCEPT !.pc = "append"],
                    <<Frame("function_decleration", "start")>>)
           ELSE IF token.kind = "Identifier" THEN
               IF next.tok = None THEN Panic(next.rest, "Syntax error")
               ELSE IF next.tok = Operator("(") THEN
                   Goto(next.rest, [top EXCEPT !.pc = "append"],
                        <<[Frame("function_call", "start")
                              EXCEPT !.name = token.text,
                                     !.start = Len(orig) - Len(next.rest)]>>)
               ELSE Goto(next.rest, top, <<>>)
           ELSE Goto(input, [top EXCEPT !.pc = "expr"],
                     <<[Frame("eat_expr", "loop")
                           EXCEPT !.terminator = <<Symbol(";")>>]>>)

parse_until ==
    /\ Running("parse_until", "loop")
    /\ LET token == peek(input)
           first == eat(input)
           next == eat(first.rest)
       IN  IF token = None THEN Panic(input, "Unexpted end of file")
           ELSE IF token = top.tk THEN Return(input, top.tokens)
           ELSE IF token.kind = "Keyword" THEN
               IF token.text = "let" THEN
                   Goto(input, [top EXCEPT !.pc = "append"],
                        <<Frame("variable_decleration", "start")>>)
               ELSE IF token.text = "fn" THEN
                   Goto(input, [top EXCEPT !.pc = "append"],
                        <<Frame("function_decleration", "start")>>)
               ELSE Panic(input, "Unimplumented keyword " \o token.text)
           ELSE IF token.kind = "Identifier" THEN
               IF next.tok = None THEN Panic(next.rest, "Syntax error")
               ELSE IF next.tok = Operator("(") THEN
                   Goto(next.rest, [top EXCEPT !.pc = "append"],
                        <<[Frame("function_call", "start")
                              EXCEPT !.name = token.text,
                                     !.start = Len(orig) - Len(next.rest)]>>)
               ELSE Goto(next.rest, top, <<>>)
           ELSE Goto(input, [top EXCEPT !.pc = "expr"],
                     <<[Frame("eat_expr", "loop")
                           EXCEPT !.terminator = <<Symbol(";")>>]>>)

\* Fault: the handler's result is put in front of the accumulated tokens.
parse_until_append_in_front ==
    /\ Running("parse_until", "append")
    /\ Goto(input, [top EXCEPT !.pc = "loop", !.tokens = ret.val \o top.tokens], <<>>)

\* tokens.append(&mut <the handler's result>)
parse_until_append ==
    /\ Running("parse_until", "append")
    /\ Goto(input, [top EXCEPT !.pc = "loop", !.tokens = top.tokens \o ret.val], <<>>)

\* Fault: the expression's instructions are appended to the accumulated ones.
parse_until_expr_appended ==
    /\ Running("parse_until", "expr")
    /\ LET evaluated == evaluate(ret.val)
       IN  IF evaluated.ok THEN Return(input, top.tokens \o evaluated.val)
           ELSE Panic(input, "evaluate")

\* return AstExpr::evaluate(&mut expr)
parse_until_expr ==
    /\ Running("parse_until", "expr")
    /\ LET evaluated == evaluate(ret.val)
       IN  IF evaluated.ok THEN Return(input, evaluated.val)
           ELSE Panic(input, "evaluate")

(***************************************************************************)
(* Parser::variable_decleration                                            *)
(***************************************************************************)
\* Fault: the token after "let" is taken as the name whatever its kind.
variable_decleration_any_name ==
    /\ Running("variable_decleration", "start")
    /\ LET kw == eat(input)
           tk_identifier == eat(kw.rest)
           eq == eat_expect(tk_identifier.rest, Symbol("="))
       IN  IF tk_identifier.tok = None
               THEN Panic(tk_identifier.rest, "expected an identifier after 'let' keyword")
           ELSE IF eq.err # "ok" THEN Panic(eq.rest, eq.err)
           ELSE Goto(eq.rest,
                     [top EXCEPT !.pc = "expr", !.name = tk_identifier.tok.text],
                     <<[Frame("eat_expr", "loop")
                           EXCEPT !.terminator = <<Symbol(";")>>,
                                  !.start = Len(orig) - Len(eq.rest)]>>)

variable_decleration ==
    /\ Running("variable_decleration", "start")
    /\ LET kw == eat(input)
           tk_identifier == eat(kw.rest)
           eq == eat_expect(tk_identifier.rest, Symbol("="))
       IN  IF tk_identifier.tok = None
               THEN Panic(tk_identifier.rest, "expected an identifier after 'let' keyword")
           ELSE IF tk_identifier.tok.kind # "Identifier"
               THEN Panic(tk_identifier.rest, "expected an identifier after 'let' keyword")
           ELSE IF eq.err # "ok" THEN Panic(eq.rest, eq.err)
           ELSE Goto(eq.rest,
                     [top EXCEPT !.pc = "expr", !.name = tk_identifier.tok.text],
                     <<[Frame("eat_expr", "loop")
                           EXCEPT !.terminator = <<Symbol(";")>>,
                                  !.start = Len(orig) - Len(eq.rest)]>>)

\* Fault: the expression's instructions are not appended.
variable_decleration_expr_dropped ==
    /\ Running("variable_decleration", "expr")
    /\ LET evaluated == evaluate(ret.val)
           semi == eat_expect(input, Symbol(";"))
       IN  IF ~evaluated.ok THEN Panic(input, "evaluate")
           ELSE IF semi.err # "ok" THEN Panic(semi.rest, semi.err)
           ELSE Return(semi.rest, <<DeclareVariable(top.name)>>)

\* Fault: the declaration is pushed before the expression's instructions.
variable_decleration_expr_declare_first ==
    /\ Running("variable_decleration", "expr")
    /\ LET evaluated == evaluate(ret.val)
           semi == eat_expect(input, Symbol(";"))
       IN  IF ~evaluated.ok THEN Panic(input, "evaluate")
           ELSE IF semi.err # "ok" THEN Panic(semi.rest, semi.err)
           ELSE Return(semi.rest, <<DeclareVariable(top.name)>> \o evaluated.val)

variable_decleration_expr ==
    /\ Running("variable_decleration", "expr")
    /\ LET evaluated == evaluate(ret.val)
           semi == eat_expect(input, Symbol(";"))
       IN  IF ~evaluated.ok THEN Panic(input, "evaluate")
           ELSE IF semi.err # "ok" THEN Panic(semi.rest, semi.err)
           ELSE Return(semi.rest, evaluated.val \o <<DeclareVariable(top.name)>>)

(***************************************************************************)
(* Parser::function_decleration                                            *)
(***************************************************************************)
function_decleration ==
    /\ Running("function_decleration", "start")
    /\ LET kw == eat(input)
           tk_identifier == eat(kw.rest)
           paren == eat_expect(tk_identifier.rest, Operator("("))
       IN  IF tk_identifier.tok = None
               THEN Panic(tk_identifier.rest, "expected an identifier after 'fn' keyword")
           ELSE IF tk_identifier.tok.kind # "Identifier"
               THEN Panic(tk_identifier.rest, "expected an identifier after 'fn' keyword")
           ELSE IF paren.err # "ok" THEN Panic(paren.rest, paren.err)
           ELSE Goto(paren.rest,
                     [top EXCEPT !.pc = "args", !.name = tk_identifier.tok.text], <<>>)

\* one iteration of 'args
function_decleration_args ==
    /\ Running("function_decleration", "args")
    /\ LET tk == eat(input)
           peeked == eat(tk.rest)
       IN  IF tk.tok = None THEN Panic(tk.rest, "Invalid function decleration")
           ELSE IF tk.tok.kind = "Identifier" THEN
               IF peeked.tok = None THEN Panic(peeked.rest, "Invalid function decleration")
               ELSE IF peeked.tok = Symbol(",") THEN
                   Goto(peeked.rest,
                        [top EXCEPT !.fn_args = Append(top.fn_args, tk.tok.text)], <<>>)
               ELSE IF peeked.tok = Operator(")") THEN
                   Goto(peeked.rest,
                        [top EXCEPT !.pc = "body",
                                    !.fn_args = Append(top.fn_args, tk.tok.text)], <<>>)
               ELSE Panic(peeked.rest, "Syntax error")
           ELSE IF tk.tok = Operator(")") THEN
               Goto(tk.rest, [top EXCEPT !.pc = "body"], <<>>)
           ELSE Panic(tk.rest, "Syntax error")

\* after 'args: the opening brace and the call of parse_until
function_decleration_body ==
    /\ Running("function_decleration", "body")
    /\ LET brace == eat_expect(input, Symbol("{"))
       IN  IF brace.err # "ok" THEN Panic(brace.rest, brace.err)
           ELSE Goto(brace.rest, [top EXCEPT !.pc = "end"],
                     <<[Frame("parse_until", "loop")
                           EXCEPT !.tk = Symbol("}"),
                                  !.start = Len(orig) - Len(brace.rest)]>>)

\* Fault: the body is spliced in front of the declaration instead of into it.
function_decleration_end_flat ==
    /\ Running("function_decleration", "end")
    /\ LET fn_body == ret.val
           brace == eat_expect(input, Symbol("}"))
       IN  IF brace.err # "ok" THEN Panic(brace.rest, brace.err)
           ELSE Return(brace.rest, fn_body \o <<DeclareFunction(top.name, <<>>)>>)

function_decleration_end ==
    /\ Running("function_decleration", "end")
    /\ LET fn_body == ret.val
           brace == eat_expect(input, Symbol("}"))
       IN  IF brace.err # "ok" THEN Panic(brace.rest, brace.err)
           ELSE Return(brace.rest, <<DeclareFunction(top.name, fn_body)>>)

(***************************************************************************)
(* Parser::function_call                                                   *)
(***************************************************************************)
\* Fault: the token after "(" is eaten without being compared with ")".
function_call_any_close ==
    /\ Running("function_call", "start")
    /\ LET paren == eat(input)
           semi == eat_expect(paren.rest, Symbol(";"))
       IN  IF semi.err # "ok" THEN Panic(semi.rest, semi.err)
           ELSE Return(semi.rest, <<Call(top.name, 0)>>)

\* Fault: the ';' after the call is not consumed.
function_call_no_semicolon ==
    /\ Running("function_call", "start")
    /\ LET paren == eat_expect(input, Operator(")"))
       IN  IF paren.err # "ok" THEN Panic(paren.rest, paren.err)
           ELSE Return(paren.rest, <<Call(top.name, 0)>>)

function_call ==
    /\ Running("function_call", "start")
    /\ LET paren == eat_expect(input, Operator(")"))
           semi == eat_expect(paren.rest, Symbol(";"))
       IN  IF paren.err # "ok" THEN Panic(paren.rest, paren.err)
           ELSE IF semi.err # "ok" THEN Panic(semi.rest, semi.err)
           ELSE Return(semi.rest, <<Call(top.name, 0)>>)

(***************************************************************************)
(* Parser::eat_expr: one iteration of 'get_tokens                          *)
(***************************************************************************)
\* Fault: an exhausted queue ends the expression instead of failing.
eat_expr_stops_at_end ==
    /\ Running("eat_expr", "loop")
    /\ LET peeked == peek(input)
           token == eat(input)
       IN  IF peeked = None THEN Return(input, top.out_tks)
           ELSE IF contains(top.terminator, peeked) THEN Return(input, top.out_tks)
           ELSE Goto(token.rest,
                     [top EXCEPT !.out_tks = Append(top.out_tks, token.tok)], <<>>)

\* Fault: the token is eaten before it is compared with the terminators.
eat_expr_eats_terminator ==
    /\ Running("eat_expr", "loop")
    /\ LET peeked == peek(input)
           token == eat(input)
       IN  IF peeked = None THEN Panic(input, "Expected got EOF instead")
           ELSE IF contains(top.terminator, peeked) THEN Return(token.rest, top.out_tks)
           ELSE Goto(token.rest,
                     [top EXCEPT !.out_tks = Append(top.out_tks, token.tok)], <<>>)

eat_expr ==
    /\ Running("eat_expr", "loop")
    /\ LET peeked == peek(input)
           token == eat(input)
       IN  IF peeked = None THEN Panic(input, "Expected got EOF instead")
           ELSE IF contains(top.terminator, peeked) THEN Return(input, top.out_tks)
           ELSE Goto(token.rest,
                     [top EXCEPT !.out_tks = Append(top.out_tks, token.tok)], <<>>)

Next ==
    \/ parse
    \/ parse_ret
    \/ parse_until
    \/ parse_until_append
    \/ parse_until_expr
    \/ variable_decleration
    \/ variable_decleration_expr
    \/ function_decleration
    \/ function_decleration_args
    \/ function_decleration_body
    \/ function_decleration_end
    \/ function_call
    \/ eat_expr

Spec == Init /\ [][Next]_vars

\* The parser is one sequential thread: a step that can be taken is taken.
FairSpec == Spec /\ WF_vars(Next)

(***************************************************************************)
(* eat_expr on its own: called with any terminator vector on any token     *)
(* queue.                                                                  *)
(***************************************************************************)
InitExpr ==
    /\ orig \in TokenRuns(MaxExprLen)
    /\ input = orig
    /\ \E t \in Terminators :
          stack = <<[fn |-> "eat_expr", pc |-> "loop", tk |-> None, terminator |-> t,
                     tokens |-> <<>>, out_tks |-> <<>>, name |-> "", fn_args |-> <<>>,
                     start |-> 0]>>
    /\ ret = NoRet
    /\ status = "running"
    /\ err = ""
    /\ result = <<>>
    /\ log = <<>>

NextExpr == eat_expr

SpecExpr == InitExpr /\ [][NextExpr]_vars

FairSpecExpr == SpecExpr /\ WF_vars(NextExpr)

(***************************************************************************)
(* Properties.                                                             *)
(***************************************************************************)
\* the tokens of the original queue after the first s
Rest(s) == SubSeq(orig, s + 1, Len(orig))

\* the elements of a terminator vector
TermSet(t) == {t[i] : i \in DOMAIN t}

\* the call that returned just before the one that has just returned
Previous == log[Len(log) - 1]

\* q starts with  let <identifier> = <tokens> ;
LetFront(q) ==
    /\ Len(q) >= 4
    /\ q[1] = Keyword("let")
    /\ q[2].kind = "Identifier"
    /\ q[3] = Symbol("=")
    /\ \E k \in 4..Len(q) : q[k] = Symbol(";")

FirstSemi(q) ==
    CHOOSE k \in 4..Len(q) : q[k] = Symbol(";") /\ \A j \in 4..(k - 1) : q[j] # Symbol(";")

LetExpr(q) == SubSeq(q, 4, FirstSemi(q) - 1)

\* C1: variable_decleration on  let n = E ;  (E without ';') gives exactly E to
\* the translator and returns the translator's instructions followed by one
\* DeclareVariable(n), with the cursor right after the ';'; on such a front it
\* fails only if the translator fails on E.
C1_VariableDeclaration ==
    /\ ret.fn = "variable_decleration" =>
         LET q == Rest(ret.start)
         IN  /\ LetFront(q)
             /\ Len(log) >= 2
             /\ Previous.fn = "eat_expr"
             /\ Previous.val = LetExpr(q)
             /\ evaluate(LetExpr(q)).ok
             /\ ret.val = evaluate(LetExpr(q)).val \o <<DeclareVariable(q[2].text)>>
             /\ pos = ret.start + FirstSemi(q)
    /\ \A i \in DOMAIN stack :
         (/\ stack[i].fn = "variable_decleration"
          /\ status = "panicked"
          /\ LetFront(Rest(stack[i].start)))
         => /\ err = "evaluate"
            /\ ~evaluate(LetExpr(Rest(stack[i].start))).ok

C1_Witness ==
    /\ ret.fn = "variable_decleration"
    /\ Len(ret.val) = 4
    /\ ret.val[4] = DeclareVariable("b")

\* the tokens of a function declaration that starts after s tokens, from its
\* first parameter token to the token before the first ")"
FirstClose(s) ==
    CHOOSE k \in (s + 4)..Len(orig) :
        orig[k] = Operator(")") /\ \A j \in (s + 4)..(k - 1) : orig[j] # Operator(")")

ParamTokens(s) == SubSeq(orig, s + 4, FirstClose(s) - 1)

C3_TerminatorLeft ==
    ret.fn = "parse_until" => (input # <<>> /\ Head(input) = ret.tk)

\* C4: the tokens eat_expr(T) returns are exactly the tokens it consumed, in
\* order, none of them is in T, and the next unconsumed token is in T.
C4_EatExpr ==
    ret.fn = "eat_expr" =>
        /\ ret.val = SubSeq(orig, ret.start + 1, ret.end)
        /\ pos = ret.end
        /\ \A i \in DOMAIN ret.val : ret.val[i] \notin TermSet(ret.terminator)
        /\ input # <<>>
        /\ Head(input) \in TermSet(ret.terminator)

C4_Witness ==
    /\ ret.fn = "eat_expr"
    /\ Len(ret.val) = 2
    /\ Len(ret.terminator) = 2
    /\ Head(input) = Operator(")")

\* eat_expr is running and no token left in the queue is one of its terminators
NoTerminatorAhead ==
    /\ status = "running"
    /\ Len(stack) > 0
    /\ top.fn = "eat_expr"
    /\ \A i \in DOMAIN input : input[i] \notin TermSet(top.terminator)

UnexpectedEof == status = "panicked" /\ err = "Expected got EOF instead"

\* C5: on a queue that holds none of its terminators (an Eof marker is a token
\* like any other), eat_expr never returns: it keeps consuming and, with the
\* queue exhausted, fails with the unexpected-end-of-input error.
C5_EatExprEof ==
    /\ [][NoTerminatorAhead =>
            /\ ret'.fn # "eat_expr"
            /\ status' = "running" => NoTerminatorAhead'
            /\ status' # "running" => UnexpectedEof']_vars
    /\ NoTerminatorAhead ~> UnexpectedEof

C5_Witness ==
    /\ UnexpectedEof
    /\ top.fn = "eat_expr"
    /\ Len(top.out_tks) = 3
    /\ top.out_tks[3] = Eof
    /\ top.terminator = <<Symbol(","), Operator(")")>>

\* variable_decleration is about to run and the token after "let" is missing
\* or no identifier
LetWithoutName ==
    /\ Running("variable_decleration", "start")
    /\ (Len(input) < 2 \/ input[2].kind # "Identifier")

\* C6: when the token after "let" is not an identifier (or there is none),
\* the parse fails at once: no call returns, nothing is emitted, and nothing
\* runs after the failure.
C6_LetWithoutName ==
    [][/\ LetWithoutName =>
            /\ status' = "panicked"
            /\ err' = "expected an identifier after 'let' keyword"
            /\ log' = log
            /\ result' = <<>>
       /\ status # "running" => FALSE]_vars

C6_Witness ==
    /\ status = "panicked"
    /\ err = "expected an identifier after 'let' keyword"
    /\ top.fn = "variable_decleration"
    /\ orig = <<Keyword("let"), Symbol("="), Value("1"), Symbol(";"), Eof>>

CallProgram(n) == <<Identifier(n), Operator("("), Operator(")"), Symbol(";"), Eof>>

\* C7: the stream  n ( ) ; Eof  parses to exactly [Call(n, 0)], the call
\* statement having consumed the four tokens before the Eof marker.
C7_CallStatement ==
    \A n \in {"a", "b"} :
        orig = CallProgram(n) =>
            /\ status # "panicked"
            /\ ret.fn = "function_call" => (pos = 4 /\ ret.val = <<Call(n, 0)>>)
            /\ status = "returned" => (result = <<Call(n, 0)>> /\ input = <<Eof>>)

C7_Witness ==
    /\ orig = CallProgram("a")
    /\ status = "returned"
    /\ result = <<Call("a", 0)>>

\* C8: parse on a queue that holds only the Eof marker returns the empty
\* instruction sequence and consumes nothing.
C8_OnlyEof ==
    orig = <<Eof>> =>
        /\ status # "panicked"
        /\ input = orig
        /\ status = "returned" => result = <<>>

C8_Witness ==
    /\ orig = <<Eof>>
    /\ status = "returned"

\* the parameter grammar  (Identifier ("," Identifier)*)?
GrammarParams(p) ==
    \/ p = <<>>
    \/ /\ Len(p) % 2 = 1
       /\ \A i \in DOMAIN p :
            IF i % 2 = 1 THEN p[i].kind = "Identifier" ELSE p[i] = Symbol(",")

\* C9: function_decleration returns only if the tokens between "(" and ")"
\* follow the parameter grammar; on any other token sequence the parse fails.
C9_ParameterList ==
    ret.fn = "function_decleration" => GrammarParams(ParamTokens(ret.start))

\* C10: every parse ends (returns or fails), because every iteration of the
\* loop of parse_until, of 'args and of eat_expr that does not end the loop
\* removes at least one token.
C10_Termination ==
    /\ <>(status # "running")
    /\ [][/\ (Running("eat_expr", "loop") /\ Running("eat_expr", "loop")'
                /\ Len(stack') = Len(stack))
             => Len(input') < Len(input)
          /\ (Running("function_decleration", "args")
                /\ Running("function_decleration", "args")')
             => Len(input') < Len(input)
          /\ (Running("parse_until", "loop") /\ Running("parse_until", "loop")'
                /\ Len(stack') = Len(stack))
             => Len(input') < Len(input)
          /\ (Running("parse_until", "append") /\ Running("parse_until", "loop")')
             => (ret.start >= top.start /\ ret.end > ret.start /\ pos = ret.end)]_vars

C10_Witness ==
    /\ status = "returned"
    /\ Len(log) >= 9
    /\ \E i \in DOMAIN log : log[i].fn = "function_decleration"
    /\ \E i \in DOMAIN log : log[i].fn = "eat_expr"

\* parse_until is about to peek a keyword that is not its terminator and is
\* neither "let" nor "fn"
UnhandledKeyword ==
    /\ Running("parse_until", "loop")
    /\ input # <<>>
    /\ Head(input).kind = "Keyword"
    /\ Head(input) # top.tk
    /\ Head(input).text \notin {"let", "fn"}

\* C11: on a keyword other than "let" and "fn" parse_until fails with the
\* unimplemented-keyword error that names the keyword; the keyword is not
\* consumed and no call returns, at top level and in function bodies.
C11_UnimplementedKeyword ==
    [][UnhandledKeyword =>
          /\ status' = "panicked"
          /\ err' = "Unimplumented keyword " \o Head(input).text
          /\ input' = input
          /\ log' = log
          /\ result' = <<>>]_vars

C11_Witness ==
    /\ status = "panicked"
    /\ err = "Unimplumented keyword if"
    /\ top.fn = "parse_until"
    /\ top.tk = Symbol("}")
    /\ top.tokens # <<>>
    /\ Head(input) = Keyword("if")

\* the next two tokens are ")" and ";"
CallClosed ==
    /\ Len(input) >= 2
    /\ input[1] = Operator(")")
    /\ input[2] = Symbol(";")

\* the queue ends before function_call has its two tokens
CallCutShort == input = <<>> \/ input = <<Operator(")")>>

\* C12: after Identifier and "(", function_call returns [Call(name, 0)] only
\* if the next two tokens are ")" and ";", which it consumes; otherwise it
\* fails, with the unexpected-token error, or the end-of-input error if the
\* queue is exhausted, and no call returns.
C12_CallArguments ==
    /\ [][Running("function_call", "start") =>
            IF CallClosed
            THEN /\ status' = "running"
                 /\ ret'.fn = "function_call"
                 /\ ret'.val = <<Call(top.name, 0)>>
                 /\ input' = Tail(Tail(input))
            ELSE /\ status' = "panicked"
                 /\ err' = IF CallCutShort THEN "Expected got EOF instead"
                           ELSE "Expected got instead"
                 /\ log' = log]_vars
    /\ [](\A j \in DOMAIN log :
            log[j].fn = "function_call" =>
               /\ orig[log[j].start - 1] = Identifier(log[j].val[1].arg)
               /\ orig[log[j].start] = Operator("(")
               /\ orig[log[j].start + 1] = Operator(")")
               /\ orig[log[j].start + 2] = Symbol(";")
               /\ log[j].end = log[j].start + 2
               /\ log[j].val = <<Call(log[j].val[1].arg, 0)>>)

C12_Witness ==
    /\ status = "panicked"
    /\ err = "Expected got instead"
    /\ top.fn = "function_call"
    /\ orig[top.start + 1] = Operator(")")
    /\ pos = top.start + 2

\* parse_until is about to peek a token that is not its terminator, not a
\* keyword and not an identifier
BareExpressionAhead ==
    /\ Running("parse_until", "loop")
    /\ input # <<>>
    /\ Head(input) # top.tk
    /\ Head(input).kind \notin {"Keyword", "Identifier"}

\* r is the return of an eat_expr that took every token from its start up to
\* the first ';' and stopped in front of it
ExtractedToSemicolon(r) ==
    /\ r.fn = "eat_expr"
    /\ r.terminator = <<Symbol(";")>>
    /\ r.val = SubSeq(orig, r.start + 1, r.end)
    /\ \A i \in DOMAIN r.val : r.val[i] # Symbol(";")
    /\ orig[r.end + 1] = Symbol(";")

\* C13: on a token that starts a bare expression parse_until calls eat_expr
\* up to ';' and returns exactly the translator's instructions for the
\* extracted tokens: what it had accumulated is dropped, the ';' stays in the
\* queue and nothing after it is parsed.
C13_BareExpression ==
    /\ [][BareExpressionAhead =>
            /\ Len(stack') = Len(stack) + 1
            /\ stack'[Len(stack')].fn = "eat_expr"
            /\ stack'[Len(stack')].terminator = <<Symbol(";")>>
            /\ stack'[Len(stack')].out_tks = <<>>
            /\ input' = input
            /\ log' = log]_vars
    /\ []((ret.fn = "parse_until" /\ Len(log) >= 2 /\ Previous.fn = "eat_expr") =>
            /\ ExtractedToSemicolon(Previous)
            /\ Previous.start >= ret.start
            /\ ret.val = evaluate(Previous.val).val
            /\ ret.end = Previous.end
            /\ pos = Previous.end
            /\ Head(input) = Symbol(";"))
    /\ []((status = "returned" /\ Len(log) >= 3 /\ log[Len(log) - 2].fn = "eat_expr") =>
            /\ result = evaluate(log[Len(log) - 2].val).val
            /\ input = Rest(log[Len(log) - 2].end)
            /\ Head(input) = Symbol(";"))

C13_Witness ==
    /\ status = "returned"
    /\ orig = LetStmt \o <<Value("1"), Operator("+"), Identifier("a"), Symbol(";"), Eof>>
    /\ result = <<Push("1"), GetVariable("a"), Operation("+")>>
    /\ input = <<Symbol(";"), Eof>>

\* parse_until is about to peek an identifier
IdentifierAhead ==
    /\ Running("parse_until", "loop")
    /\ input # <<>>
    /\ Head(input).kind = "Identifier"
    /\ Head(input) # top.tk

\* C14: on an identifier parse_until consumes it and the token after it, and
\* nothing else. If that token is not "(", no call is made, the accumulated
\* instructions stay as they are and the loop goes on at the third token,
\* whatever the discarded token is; "(" leads to function_call; with no
\* token after the identifier the parse fails.
C14_IdentifierStatement ==
    [][IdentifierAhead =>
          IF Len(input) = 1
          THEN /\ status' = "panicked"
               /\ err' = "Syntax error"
               /\ log' = log
          ELSE /\ status' = "running"
               /\ input' = Tail(Tail(input))
               /\ log' = log
               /\ IF input[2] = Operator("(")
                  THEN /\ Len(stack') = Len(stack) + 1
                       /\ stack'[Len(stack')].fn = "function_call"
                       /\ stack'[Len(stack')].name = Head(input).text
                       /\ stack'[Len(stack)].tokens = top.tokens
                  ELSE stack' = stack]_vars

\* the first statement of a function body was an identifier followed by the
\* body's '}', and parse_until goes on behind them
C14_Witness ==
    /\ Running("parse_until", "loop")
    /\ top.tk = Symbol("}")
    /\ pos = top.start + 2
    /\ orig[pos - 1].kind = "Identifier"
    /\ orig[pos] = Symbol("}")
    /\ input = <<Eof>>

\* the returned handler calls whose statement starts after p tokens: a let or
\* fn declaration called at p, or a function_call called behind the
\* identifier and the "(" at p
HandlersAt(p) ==
    {j \in DOMAIN log :
        \/ /\ log[j].fn \in {"variable_decleration", "function_decleration"}
           /\ log[j].start = p
        \/ /\ log[j].fn = "function_call"
           /\ log[j].start = p + 2
           /\ orig[p + 1].kind = "Identifier"}

\* the tokens from p to e are statements handled one after the other
RECURSIVE Tiled(_, _)
Tiled(p, e) ==
    IF p = e THEN TRUE
    ELSE /\ p < e
         /\ \E j \in HandlersAt(p) : log[j].end > p /\ Tiled(log[j].end, e)

\* the handlers' results for the statements from p to e, in source order
RECURSIVE Spliced(_, _)
Spliced(p, e) ==
    IF p >= e THEN <<>>
    ELSE LET j == CHOOSE j \in HandlersAt(p) : TRUE
         IN  log[j].val \o Spliced(log[j].end, e)

CallB == Call("b", 0)
LetA == <<Push("1"), DeclareVariable("a")>>

\* C15: when a block is let declarations, fn declarations and call
\* statements up to its terminator, parse_until returns the handlers'
\* results concatenated in source order, nothing else; so does the
\* parse_until of every function body.
C15_BlockConcatenation ==
    /\ (ret.fn = "parse_until" /\ input # <<>> /\ Head(input) = ret.tk
           /\ Tiled(ret.start, ret.end))
         => ret.val = Spliced(ret.start, ret.end)
    /\ orig = CallStmt \o FnStmt("b", <<>>, LetStmt \o CallStmt) \o <<Eof>> =>
         /\ status # "panicked"
         /\ status = "returned" =>
              result = <<CallB, DeclareFunction("b", LetA \o <<CallB>>)>>
    /\ orig = FnStmt("a", <<>>, FnStmt("b", <<Identifier("a")>>, CallStmt) \o LetStmt)
                 \o LetStmt \o <<Eof>> =>
         /\ status # "panicked"
         /\ status = "returned" =>
              result = <<DeclareFunction("a", <<DeclareFunction("b", <<CallB>>)>> \o LetA)>>
                          \o LetA

C15_Witness ==
    /\ status = "returned"
    /\ result = <<DeclareFunction("a", <<DeclareFunction("b", <<CallB>>)>> \o LetA)>>
                   \o LetA

\* a is what is left of b after some of its front tokens are removed
IsSuffix(a, b) ==
    /\ Len(a) <= Len(b)
    /\ a = SubSeq(b, Len(b) - Len(a) + 1, Len(b))

\* q without its front token (q itself when it is empty)
Behind(q) == IF q = <<>> THEN q ELSE SubSeq(q, 2, Len(q))

\* C16: the queue is always a suffix of the original input and every step
\* leaves a suffix of the queue it found (nothing is put back or read twice);
\* on the queue of every reachable state peek yields the front token,
\* eat and eat_expect take exactly the front token, eat_expect also when it
\* then fails; a step of parse_until that only peeks leaves the queue as it is.
C16_Cursor ==
    /\ [](/\ IsSuffix(input, orig)
          /\ peek(input) = (IF input = <<>> THEN None ELSE input[1])
          /\ eat(input).tok = peek(input)
          /\ eat(input).rest = Behind(input)
          /\ \A t \in Alphabet :
                /\ eat_expect(input, t).tok = peek(input)
                /\ eat_expect(input, t).rest = Behind(input)
                /\ (eat_expect(input, t).err = "ok") = (input # <<>> /\ input[1] = t))
    /\ [][/\ IsSuffix(input', input)
          /\ (status' = "panicked" /\ err' = "Expected got instead")
                => input' = Behind(input) \/ input' = Behind(Behind(input))
                      \/ input' = Behind(Behind(Behind(input)))
          /\ (Running("parse_until", "loop") /\ input # <<>>
                /\ input[1].kind \notin {"Identifier"})
                => input' = input]_vars

\* eat_expect('=') has failed in variable_decleration and the token it got
\* is gone from the queue
C16_Witness ==
    /\ status = "panicked"
    /\ err = "Expected got instead"
    /\ top.fn = "variable_decleration"
    /\ pos = top.start + 3
    /\ orig[pos] # Symbol("=")
    /\ input = Rest(pos)
    /\ input # <<>>

\* The evaluation stack's depth after the instructions of seq are executed
\* from depth d, by the stack effects of the ParserToken variants; -1 when an
\* instruction finds fewer values than it consumes, or when the body of a
\* DeclareFunction does.  A Call is counted as leaving no result.
RECURSIVE StackAfter(_, _)
StackAfter(seq, d) ==
    IF d < 0 THEN -1
    ELSE IF seq = <<>> THEN d
    ELSE LET i == Head(seq)
             after ==
                 CASE i.op \in {"Push", "GetVariable"} -> d + 1
                   [] i.op \in {"DeclareVariable", "Pop"} -> d - 1
                   [] i.op = "Operation" -> IF d >= 2 THEN d - 1 ELSE -1
                   [] i.op = "Call" -> d - i.n
                   [] i.op = "DeclareFunction" ->
                        IF StackAfter(i.body, 0) >= 0 THEN d ELSE -1
                   [] OTHER -> d
         IN  StackAfter(Tail(seq), after)

\* every Call in seq, and in the function bodies in seq, has no arguments
RECURSIVE CallsTakeNothing(_)
CallsTakeNothing(seq) ==
    \A k \in DOMAIN seq :
        /\ seq[k].op = "Call" => seq[k].n = 0
        /\ seq[k].op = "DeclareFunction" => CallsTakeNothing(seq[k].body)

\* C17: with a translator whose results leave exactly one value, no
\* instruction sequence a parser function returns, and no function body in
\* it, underflows the evaluation stack: a let gives an expression that
\* leaves one value and then its DeclareVariable, and calls and function
\* declarations consume nothing.
C17_NoUnderflow ==
    /\ ret.fn \in {"parse", "parse_until", "variable_decleration",
                   "function_decleration", "function_call"} =>
          /\ StackAfter(ret.val, 0) >= 0
          /\ CallsTakeNothing(ret.val)
    /\ ret.fn \in {"variable_decleration", "function_decleration", "function_call"} =>
          StackAfter(ret.val, 0) = 0
    /\ ret.fn = "variable_decleration" =>
          /\ ret.val[Len(ret.val)].op = "DeclareVariable"
          /\ StackAfter(SubSeq(ret.val, 1, Len(ret.val) - 1), 0) = 1
    /\ status = "returned" => StackAfter(result, 0) >= 0

C17_Witness ==
    /\ status = "returned"
    /\ Len(result) = 3
    /\ result[1].op = "DeclareFunction"
    /\ Len(result[1].body) = 3
    /\ result[3].op = "DeclareVariable"
====
